---- MODULE Spec2Model ----
(***************************************************************************)
(* Model of the quantitative core of the WhatsApp micro-tools:             *)
(*   - lib/utils/growth-model.ts      (12-month follower projections)      *)
(*   - lib/utils/migration-model.ts   (week-by-week migration timeline)    *)
(*   - ComparisonTool.tsx             (use-case filter and score tally)    *)
(*                                                                         *)
(* The TypeScript code computes with JavaScript numbers, i.e. IEEE-754     *)
(* binary64.  The first section models binary64 arithmetic on the          *)
(* non-negative finite values the code produces (round to nearest, ties    *)
(* to even), so that Math.round and the threshold comparisons see the      *)
(* same values as the program.                                             *)
(***************************************************************************)
EXTENDS Integers, Sequences, FiniteSets, TLC

(***************************************************************************)
(* JavaScript numbers.  A number is [m |-> limbs, e |-> exponent] with     *)
(* value m * 2^e, the significand m a little-endian sequence of four       *)
(* 14-bit limbs holding exactly 53 significant bits (or zero).             *)
(***************************************************************************)
LimbBits == 14

Limb == 2^LimbBits

MantBits == 53

Get(X, i) == IF i >= 1 /\ i <= Len(X) THEN X[i] ELSE 0

\* number of significant bits of a limb
BitLen(n) == IF n >= 2^7
             THEN IF n >= 2^11
                  THEN IF n >= 2^13 THEN (IF n >= 2^14 THEN 15 ELSE 14)
                       ELSE (IF n >= 2^12 THEN 13 ELSE 12)
                  ELSE IF n >= 2^9 THEN (IF n >= 2^10 THEN 11 ELSE 10)
                       ELSE (IF n >= 2^8 THEN 9 ELSE 8)
             ELSE IF n >= 2^3
                  THEN IF n >= 2^5 THEN (IF n >= 2^6 THEN 7 ELSE 6)
                       ELSE (IF n >= 2^4 THEN 5 ELSE 4)
                  ELSE IF n >= 2 THEN (IF n >= 4 THEN 3 ELSE 2)
                       ELSE n

\* index of the most significant non-zero limb at or below i (0: none)
RECURSIVE BigTopFrom(_, _)
BigTopFrom(X, i) == IF i = 0 THEN 0 ELSE IF X[i] # 0 THEN i ELSE BigTopFrom(X, i - 1)

BigTop(X) == BigTopFrom(X, Len(X))

BigBitLen(X) == LET t == BigTop(X)
                IN IF t = 0 THEN 0 ELSE LimbBits * (t - 1) + BitLen(X[t])

\* floor(X / 2^s) on n limbs
BigShr(X, s, n) == LET a == s \div LimbBits
                       b == s % LimbBits
                   IN [i \in 1..n |-> (Get(X, i + a) \div 2^b)
                                      + (Get(X, i + a + 1) % 2^b) * 2^(LimbBits - b)]

\* X * 2^s on n limbs
BigShl(X, s, n) == LET a == s \div LimbBits
                       b == s % LimbBits
                   IN [i \in 1..n |-> ((Get(X, i - a) * 2^b) % Limb)
                                      + (Get(X, i - a - 1) \div 2^(LimbBits - b))]

\* bit k (0-based) of X
BigBit(X, k) == (Get(X, k \div LimbBits + 1) \div 2^(k % LimbBits)) % 2

\* X mod 2^s # 0
BigLowNonzero(X, s) == LET a == s \div LimbBits
                           b == s % LimbBits
                       IN \/ \E i \in 1..a : Get(X, i) # 0
                          \/ Get(X, a + 1) % 2^b # 0

\* propagate carries through a sequence of raw limb sums
RECURSIVE BigCarry(_, _, _)
BigCarry(R, i, c) == IF i > Len(R) THEN IF c = 0 THEN <<>> ELSE <<c>>
                     ELSE LET t == R[i] + c
                          IN <<t % Limb>> \o BigCarry(R, i + 1, t \div Limb)

BigAdd(X, Y) == LET n == IF Len(X) > Len(Y) THEN Len(X) ELSE Len(Y)
                IN BigCarry([i \in 1..n |-> Get(X, i) + Get(Y, i)], 1, 0)

BigToInt(X) == Get(X, 1) + Limb * Get(X, 2) + Limb * Limb * Get(X, 3)

BigFromInt(n) == <<n % Limb, (n \div Limb) % Limb, n \div (Limb * Limb)>>

FZero == [m |-> <<0, 0, 0, 0>>, e |-> 0]

IsZero(a) == a.m = <<0, 0, 0, 0>>

\* the binary64 nearest to X * 2^e (sticky: a non-zero part below X was dropped)
RoundBig(X, e, sticky) ==
    LET nb == BigBitLen(X)
    IN IF nb = 0 THEN FZero
       ELSE IF nb <= MantBits
            THEN [m |-> BigShl(X, MantBits - nb, 4), e |-> e - (MantBits - nb)]
            ELSE LET s == nb - MantBits
                     q == BigShr(X, s, 4)
                     st == sticky \/ BigLowNonzero(X, s - 1)
                     up == BigBit(X, s - 1) = 1 /\ (st \/ q[1] % 2 = 1)
                     r == IF up THEN BigCarry(<<q[1] + 1, q[2], q[3], q[4]>>, 1, 0) ELSE q
                 IN IF r[4] = 2^(MantBits - 3 * LimbBits)
                    THEN [m |-> <<0, 0, 0, r[4] \div 2>>, e |-> e + s + 1]
                    ELSE [m |-> <<r[1], r[2], r[3], r[4]>>, e |-> e + s]

FromInt(n) == RoundBig(BigFromInt(n), 0, FALSE)

FMul(a, b) ==
    IF IsZero(a) \/ IsZero(b) THEN FZero
    ELSE LET x == a.m
             y == b.m
             t1 == x[1] * y[1]
             t2 == x[1] * y[2] + x[2] * y[1] + t1 \div Limb
             t3 == x[1] * y[3] + x[2] * y[2] + x[3] * y[1] + t2 \div Limb
             t4 == x[1] * y[4] + x[2] * y[3] + x[3] * y[2] + x[4] * y[1] + t3 \div Limb
             t5 == x[2] * y[4] + x[3] * y[3] + x[4] * y[2] + t4 \div Limb
             t6 == x[3] * y[4] + x[4] * y[3] + t5 \div Limb
             t7 == x[4] * y[4] + t6 \div Limb
         IN RoundBig(<<t1 % Limb, t2 % Limb, t3 % Limb, t4 % Limb, t5 % Limb, t6 % Limb,
                       t7 % Limb, t7 \div Limb>>, a.e + b.e, FALSE)

FAdd(a, b) == IF IsZero(a) THEN b
              ELSE IF IsZero(b) THEN a
              ELSE LET hi == IF a.e >= b.e THEN a ELSE b
                       lo == IF a.e >= b.e THEN b ELSE a
                       d == hi.e - lo.e
                   IN IF d > MantBits + 3
                      THEN RoundBig(BigShl(hi.m, 2, 5), hi.e - 2, TRUE)
                      ELSE RoundBig(BigAdd(BigShl(hi.m, d, 9), lo.m), lo.e, FALSE)

\* X - Y for X >= Y: a negative limb borrows from the next
BigSub(X, Y) == LET n == IF Len(X) > Len(Y) THEN Len(X) ELSE Len(Y)
                IN BigCarry([i \in 1..n |-> Get(X, i) - Get(Y, i)], 1, 0)

\* a - b for numbers a >= b >= 0
FSub(a, b) == IF IsZero(b) THEN a
              ELSE IF a = b THEN FZero
              ELSE LET d == a.e - b.e
                   IN IF d > MantBits + 3
                      THEN RoundBig(BigSub(BigShl(a.m, 3, 5), <<1>>), a.e - 3, TRUE)
                      ELSE RoundBig(BigSub(BigShl(a.m, d, 9), b.m), b.e, FALSE)

\* long division of base-128 digits D[i..] by an integer 0 < d < 2^26, from remainder r:
\* the quotient digits, then the final remainder
RECURSIVE DivDigits(_, _, _, _)
DivDigits(D, i, r, d) ==
    IF i > Len(D) THEN <<r>>
    ELSE IF d < 2^24
         THEN LET t == r * 128 + D[i]
              IN <<t \div d>> \o DivDigits(D, i + 1, t % d, d)
         ELSE LET u == r * 8
                  t == (u % d) * 16 + D[i]
              IN <<(u \div d) * 16 + t \div d>> \o DivDigits(D, i + 1, t % d, d)

\* a / d for a number a and an integer 0 < d < 2^26
FDiv(a, d) ==
    IF IsZero(a) THEN FZero
    ELSE LET D == <<a.m[4] \div 128, a.m[4] % 128, a.m[3] \div 128, a.m[3] % 128,
                    a.m[2] \div 128, a.m[2] % 128, a.m[1] \div 128, a.m[1] % 128,
                    0, 0, 0, 0, 0, 0>>
             Q == DivDigits(D, 1, 0, d)
             X == [i \in 1..7 |-> Q[15 - 2*i] * 128 + Q[16 - 2*i]]
         IN RoundBig(X, a.e - 3 * LimbBits, Q[15] # 0)

\* a < b, a <= b
FLess(a, b) == IF IsZero(b) THEN FALSE
               ELSE IF IsZero(a) THEN TRUE
               ELSE IF a.e # b.e THEN a.e < b.e
               ELSE \E i \in 1..4 : a.m[i] < b.m[i] /\ \A j \in (i+1)..4 : a.m[j] = b.m[j]

FLeq(a, b) == a = b \/ FLess(a, b)

FMin(a, b) == IF FLess(b, a) THEN b ELSE a

\* Math.round of a non-negative number below 2^31: floor(a + 1/2)
MathRound(a) == IF IsZero(a) \/ -a.e > MantBits THEN 0
                ELSE BigToInt(BigShr(a.m, -a.e, 3)) + BigBit(a.m, -a.e - 1)

\* the number written n/d in decimal source text (d a power of ten)
Dec(n, d) == FDiv(FromInt(n), d)

(***************************************************************************)
(* lib/data/niche-data.ts                                                  *)
(*                                                                         *)
(* avgSubPrice is held in tenths of a dollar (1.5 is 15).                  *)
(***************************************************************************)
NICHE_DATA == <<
    [id |-> "general",       avgEngagement |-> 8,  avgSubPrice |-> 20, convRate |-> 3, capacity |-> 300000],
    [id |-> "tech",          avgEngagement |-> 6,  avgSubPrice |-> 30, convRate |-> 4, capacity |-> 300000],
    [id |-> "education",     avgEngagement |-> 10, avgSubPrice |-> 40, convRate |-> 5, capacity |-> 500000],
    [id |-> "entertainment", avgEngagement |-> 12, avgSubPrice |-> 15, convRate |-> 2, capacity |-> 1000000],
    [id |-> "news",          avgEngagement |-> 15, avgSubPrice |-> 20, convRate |-> 3, capacity |-> 2000000],
    [id |-> "sports",        avgEngagement |-> 14, avgSubPrice |-> 20, convRate |-> 3, capacity |-> 1500000],
    [id |-> "business",      avgEngagement |-> 7,  avgSubPrice |-> 50, convRate |-> 4, capacity |-> 200000],
    [id |-> "health",        avgEngagement |-> 9,  avgSubPrice |-> 30, convRate |-> 3, capacity |-> 300000],
    [id |-> "food",          avgEngagement |-> 11, avgSubPrice |-> 20, convRate |-> 2, capacity |-> 400000],
    [id |-> "fashion",       avgEngagement |-> 8,  avgSubPrice |-> 20, convRate |-> 2, capacity |-> 250000] >>

\* the positions of the table whose niche has the id
NichesWithId(id) == {i \in 1..Len(NICHE_DATA) : NICHE_DATA[i].id = id}

\* the lookup falling back on the last niche of the table
getNicheByIdLastFallback(id) ==
    IF NichesWithId(id) # {}
    THEN NICHE_DATA[CHOOSE i \in NichesWithId(id) : \A j \in NichesWithId(id) : i <= j]
    ELSE NICHE_DATA[Len(NICHE_DATA)]

getNicheById(id) ==
    IF NichesWithId(id) # {}
    THEN NICHE_DATA[CHOOSE i \in NichesWithId(id) : \A j \in NichesWithId(id) : i <= j]
    ELSE NICHE_DATA[1]

\* the option values of the niche select
NICHE_OPTIONS == [i \in 1..Len(NICHE_DATA) |-> NICHE_DATA[i].id]

(***************************************************************************)
(* lib/utils/growth-model.ts                                               *)
(*                                                                         *)
(* GrowthInputs is [followers, postsPerWeek, engagementRate, niche] with   *)
(* followers and postsPerWeek integers, engagementRate in tenths of a      *)
(* percent (the slider's step; the number the code sees is                 *)
(* EngagementRate(inputs), the binary64 nearest to the decimal) and niche  *)
(* a record of NICHE_DATA.                                                 *)
(***************************************************************************)
One == FromInt(1)

BASE_GROWTH_RATE == Dec(5, 100)

MAX_ENGAGEMENT_MULT == Dec(25, 10)

MAX_FREQUENCY_MULT == Dec(15, 10)

\* SCENARIO_MULTIPLIERS with the conservative and optimistic factors exchanged
ScenarioMultipliersSwapped ==
    [conservative |-> Dec(15, 10), expected |-> One, optimistic |-> Dec(6, 10)]

SCENARIO_MULTIPLIERS == [conservative |-> Dec(6, 10), expected |-> One, optimistic |-> Dec(15, 10)]

\* the constant term 0.5 of the frequency multiplier
FrequencyFloor == Dec(5, 10)

EngagementRate(inp) == Dec(inp.engagementRate, 10)

\* the engagement multiplier without its cap
EngagementMultUncapped(engagementRate, niche) == FDiv(engagementRate, niche.avgEngagement)

EngagementMult(engagementRate, niche) ==
    FMin(FDiv(engagementRate, niche.avgEngagement), MAX_ENGAGEMENT_MULT)

FrequencyMult(postsPerWeek) ==
    FMin(FAdd(FrequencyFloor, FDiv(FromInt(postsPerWeek), 10)), MAX_FREQUENCY_MULT)

\* no saturation: the dampening factor is 1 at every follower count
DampeningFactorNone(followers, niche) == One

DampeningFactor(followers, niche) == FDiv(FromInt(niche.capacity), niche.capacity + followers)

calculateEffectiveRate(followers, engagementRate, postsPerWeek, niche) ==
    LET monthlyGrowth == FMul(FMul(BASE_GROWTH_RATE, EngagementMult(engagementRate, niche)),
                              FrequencyMult(postsPerWeek))
    IN FMul(monthlyGrowth, DampeningFactor(followers, niche))

SeedCount == 50

ProjectionMonths == 12

\* the start of the projection without the seed for an empty channel
SeedFollowersUnseeded(inp) == inp.followers

SeedFollowers(inp) == IF inp.followers = 0 THEN SeedCount ELSE inp.followers

\* one scenario's count after one more month (the loop body, per scenario)
\* GrowOneMonth with the "1 +" dropped: the month's count becomes the gain alone
GrowOneMonthGainOnly(count, scenario, inp) ==
    LET rate == FMul(calculateEffectiveRate(count, EngagementRate(inp), inp.postsPerWeek,
                                            inp.niche),
                     SCENARIO_MULTIPLIERS[scenario])
    IN MathRound(FMul(FromInt(count), rate))

\* GrowOneMonth with every scenario growing at the expected rate
GrowOneMonthUnscaled(count, scenario, inp) ==
    LET rate == calculateEffectiveRate(count, EngagementRate(inp), inp.postsPerWeek, inp.niche)
    IN MathRound(FMul(FromInt(count), FAdd(One, rate)))

GrowOneMonth(count, scenario, inp) ==
    LET rate == FMul(calculateEffectiveRate(count, EngagementRate(inp), inp.postsPerWeek, inp.niche),
                     SCENARIO_MULTIPLIERS[scenario])
    IN MathRound(FMul(FromInt(count), FAdd(One, rate)))

\* the loop body with growth that compounds with the calendar: in month m every
\* scenario grows m times as fast
MonthStepByCalendar(month, conservative, expected, optimistic, inp) ==
    LET Grown(count, scenario) ==
            MathRound(FMul(FromInt(count),
                           FAdd(One, FMul(FMul(calculateEffectiveRate(count, EngagementRate(inp),
                                                                      inp.postsPerWeek, inp.niche),
                                               SCENARIO_MULTIPLIERS[scenario]),
                                          FromInt(month)))))
    IN [month |-> month,
        conservative |-> Grown(conservative, "conservative"),
        expected |-> Grown(expected, "expected"),
        optimistic |-> Grown(optimistic, "optimistic")]

\* one pass of the loop body: the entry pushed for `month`
MonthStep(month, conservative, expected, optimistic, inp) ==
    [month |-> month,
     conservative |-> GrowOneMonth(conservative, "conservative", inp),
     expected |-> GrowOneMonth(expected, "expected", inp),
     optimistic |-> GrowOneMonth(optimistic, "optimistic", inp)]

RECURSIVE ProjectLoop(_, _, _, _, _)
ProjectLoop(monthly, conservative, expected, optimistic, inp) ==
    IF Len(monthly) = ProjectionMonths THEN monthly
    ELSE LET entry == MonthStep(Len(monthly) + 1, conservative, expected, optimistic, inp)
         IN ProjectLoop(Append(monthly, entry), entry.conservative, entry.expected,
                        entry.optimistic, inp)

SummaryOf(monthly) == [conservative |-> monthly[ProjectionMonths].conservative,
                       expected |-> monthly[ProjectionMonths].expected,
                       optimistic |-> monthly[ProjectionMonths].optimistic]

calculateProjections(inp) ==
    LET monthly == ProjectLoop(<<>>, SeedFollowers(inp), SeedFollowers(inp), SeedFollowers(inp), inp)
    IN [monthly |-> monthly, summary |-> SummaryOf(monthly)]

MILESTONE_TARGETS == <<10000, 50000, 100000, 500000, 1000000>>

\* projections.monthly.find(m => m[scenario] >= target)?.month ?? null, null
\* modelled as 0
FirstMonthReaching(monthly, scenario, target) ==
    IF \E i \in 1..Len(monthly) : monthly[i][scenario] >= target
    THEN monthly[CHOOSE i \in 1..Len(monthly) :
                    /\ monthly[i][scenario] >= target
                    /\ \A j \in 1..(i - 1) : monthly[j][scenario] < target].month
    ELSE 0

\* formatFollowerCount(target) for a target of whole thousands or millions
MilestoneLabel(target) ==
    IF target >= 1000000 THEN ToString(target \div 1000000) \o "M"
    ELSE ToString(target \div 1000) \o "K"

\* target * (niche.convRate / 100) * niche.avgSubPrice * 0.9
RevenueEstimate(target, niche) ==
    FMul(FMul(FMul(FromInt(target), FDiv(FromInt(niche.convRate), 100)),
              Dec(niche.avgSubPrice, 10)),
         Dec(9, 10))

\* the filter of calculateMilestones with ">=" in place of ">"
MilestoneKeptAtOrAbove(target, currentFollowers) == target >= currentFollowers

\* the filter of calculateMilestones
MilestoneKept(target, currentFollowers) == target > currentFollowers

calculateMilestones(inp, projections) ==
    LET currentFollowers == IF inp.followers = 0 THEN 50 ELSE inp.followers
        kept == SelectSeq(MILESTONE_TARGETS, LAMBDA t : MilestoneKept(t, currentFollowers))
    IN [i \in 1..Len(kept) |->
           [target |-> kept[i],
            label |-> MilestoneLabel(kept[i]),
            monthConservative |-> FirstMonthReaching(projections.monthly, "conservative", kept[i]),
            monthExpected |-> FirstMonthReaching(projections.monthly, "expected", kept[i]),
            monthOptimistic |-> FirstMonthReaching(projections.monthly, "optimistic", kept[i]),
            revenueEstimate |-> RevenueEstimate(kept[i], inp.niche)]]

AVG_POSTS_PER_WEEK == 5

CombinedScore(inp) ==
    LET engagementVsNiche == FDiv(EngagementRate(inp), inp.niche.avgEngagement)
        frequencyVsNiche == FDiv(FromInt(inp.postsPerWeek), AVG_POSTS_PER_WEEK)
    IN FAdd(FMul(engagementVsNiche, Dec(6, 10)), FMul(frequencyVsNiche, Dec(4, 10)))

PercentileOf(combinedScore) ==
    IF FLeq(FromInt(2), combinedScore) THEN 95
    ELSE IF FLeq(Dec(15, 10), combinedScore) THEN 85
    ELSE IF FLeq(Dec(11, 10), combinedScore) THEN 70
    ELSE IF FLeq(Dec(8, 10), combinedScore) THEN 50
    ELSE IF FLeq(Dec(5, 10), combinedScore) THEN 30
    ELSE 15

\* the label ladder with the "Average" floor lowered to percentile 30
LabelOfAverageFrom30(percentile) ==
    IF percentile >= 90 THEN "Top 5%"
    ELSE IF percentile >= 80 THEN "Top 15%"
    ELSE IF percentile >= 60 THEN "Above Average"
    ELSE IF percentile >= 30 THEN "Average"
    ELSE "Below Average"

LabelOf(percentile) ==
    IF percentile >= 90 THEN "Top 5%"
    ELSE IF percentile >= 80 THEN "Top 15%"
    ELSE IF percentile >= 60 THEN "Above Average"
    ELSE IF percentile >= 40 THEN "Average"
    ELSE "Below Average"

calculateBenchmark(inp) ==
    LET percentile == PercentileOf(CombinedScore(inp))
    IN [percentile |-> percentile,
        label |-> LabelOf(percentile),
        engagementVsNiche |-> FDiv(EngagementRate(inp), inp.niche.avgEngagement),
        frequencyVsNiche |-> FDiv(FromInt(inp.postsPerWeek), AVG_POSTS_PER_WEEK)]

\* A Tip is [text, priority]; the text is named by the rule that pushed it.
Tip(text, priority) == [text |-> text, priority |-> priority]

\* the engagement rule with its two tests made independent
EngagementBelowTipsBoth(inp) ==
    (IF FLess(EngagementRate(inp), FMul(FromInt(inp.niche.avgEngagement), Dec(5, 10)))
     THEN <<Tip("engagementWellBelow", "High Impact")>> ELSE <<>>)
    \o (IF FLess(EngagementRate(inp), FromInt(inp.niche.avgEngagement))
        THEN <<Tip("engagementSlightlyBelow", "Medium")>> ELSE <<>>)

EngagementBelowTips(inp) ==
    IF FLess(EngagementRate(inp), FMul(FromInt(inp.niche.avgEngagement), Dec(5, 10)))
    THEN <<Tip("engagementWellBelow", "High Impact")>>
    ELSE IF FLess(EngagementRate(inp), FromInt(inp.niche.avgEngagement))
    THEN <<Tip("engagementSlightlyBelow", "Medium")>>
    ELSE <<>>

\* the tips pushed by the threshold rules, in the order of the rules
ThresholdTips(inp) ==
    EngagementBelowTips(inp)
    \o (IF inp.postsPerWeek < 3 THEN <<Tip("postMore", "High Impact")>> ELSE <<>>)
    \o (IF inp.postsPerWeek > 10 THEN <<Tip("automate", "Medium")>> ELSE <<>>)
    \o (IF inp.followers < 100 THEN <<Tip("promote", "High Impact")>> ELSE <<>>)
    \o (IF FLess(FMul(FromInt(inp.niche.avgEngagement), Dec(15, 10)), EngagementRate(inp))
        THEN <<Tip("monetize", "Medium")>> ELSE <<>>)

GeneralTip == Tip("archive", "Low")

generateTips(inp) ==
    LET all == ThresholdTips(inp) \o <<GeneralTip>>
    IN SubSeq(all, 1, IF Len(all) < 4 THEN Len(all) ELSE 4)

(***************************************************************************)
(* lib/utils/migration-model.ts                                            *)
(*                                                                         *)
(* MigrationInputs is [tgSubscribers, overlapPercent, postFrequency] with  *)
(* integer tgSubscribers and overlapPercent.                               *)
(***************************************************************************)
PostFrequencies == {"daily", "2-3x", "weekly", "monthly"}

FREQUENCY_MULTIPLIERS ==
    ("daily" :> Dec(13, 10)) @@ ("2-3x" :> One) @@ ("weekly" :> Dec(7, 10)) @@ ("monthly" :> Dec(4, 10))

Scenarios == <<"conservative", "expected", "optimistic">>

\* the scenario multipliers with conservative and optimistic exchanged
MigrationMultipliersSwapped ==
    [conservative |-> Dec(14, 10), expected |-> One, optimistic |-> Dec(7, 10)]

MIGRATION_SCENARIO_MULTIPLIERS ==
    [conservative |-> Dec(7, 10), expected |-> One, optimistic |-> Dec(14, 10)]

BASE_CONVERSION_RATES ==
    << Dec(20, 100), Dec(12, 100), Dec(10, 100), Dec(8, 100), Dec(6, 100), Dec(5, 100),
       Dec(4, 100), Dec(3, 100), Dec(2, 100) >>

\* getMode with the manual band one subscriber short
getModeFullFrom49(tgSubscribers) ==
    IF tgSubscribers = 0 THEN "startFresh"
    ELSE IF tgSubscribers < 49 THEN "migrateManually"
    ELSE "full"

getMode(tgSubscribers) ==
    IF tgSubscribers = 0 THEN "startFresh"
    ELSE IF tgSubscribers < 50 THEN "migrateManually"
    ELSE "full"

calculateReachable(tgSubscribers, overlapPercent) ==
    MathRound(FMul(FromInt(tgSubscribers), FDiv(FromInt(overlapPercent), 100)))

maxWeeks == 24

\* the base rate without the last-rate fallback: nothing converts after the
\* table's weeks
BaseRateNoTail(w) == IF w <= Len(BASE_CONVERSION_RATES) THEN BASE_CONVERSION_RATES[w]
                     ELSE FromInt(0)

BaseRate(w) == IF w <= Len(BASE_CONVERSION_RATES) THEN BASE_CONVERSION_RATES[w]
               ELSE BASE_CONVERSION_RATES[Len(BASE_CONVERSION_RATES)]

\* the week's gain rounded down instead of to the nearest integer
NewFollowersFloor(w, scenario, reachable, postFrequency) ==
    LET effectiveRate == FMul(FMul(BaseRate(w), FREQUENCY_MULTIPLIERS[postFrequency]),
                              MIGRATION_SCENARIO_MULTIPLIERS[scenario])
        product == FMul(FromInt(reachable), effectiveRate)
    IN IF IsZero(product) \/ -product.e > MantBits THEN 0
       ELSE BigToInt(BigShr(product.m, -product.e, 3))

\* the followers one scenario gains in week w
NewFollowers(w, scenario, reachable, postFrequency) ==
    LET effectiveRate == FMul(FMul(BaseRate(w), FREQUENCY_MULTIPLIERS[postFrequency]),
                              MIGRATION_SCENARIO_MULTIPLIERS[scenario])
    IN MathRound(FMul(FromInt(reachable), effectiveRate))

\* Math.min left out: the cumulative count is not capped
MinUncapped(a, b) == a

Min(a, b) == IF a < b THEN a ELSE b

\* the inner loop over the scenarios in week w
WeekStep(w, cumulative, reachable, postFrequency) ==
    [scenario \in {"conservative", "expected", "optimistic"} |->
        Min(cumulative[scenario] + NewFollowers(w, scenario, reachable, postFrequency), reachable)]

\* the loop test reading the expected scenario instead of the conservative one
ConvergedOnExpected(cumulative, reachable) ==
    FLeq(FMul(FromInt(reachable), Dec(95, 100)), FromInt(cumulative.expected))

\* the loop test reading the optimistic scenario, as the comment above the
\* loop has it
ConvergedOnOptimistic(cumulative, reachable) ==
    FLeq(FMul(FromInt(reachable), Dec(95, 100)), FromInt(cumulative.optimistic))

\* the test that leaves the loop: cumulative.conservative >= reachable * 0.95
Converged(cumulative, reachable) ==
    FLeq(FMul(FromInt(reachable), Dec(95, 100)), FromInt(cumulative.conservative))

TimelineWeek(w, cumulative) ==
    [week |-> w, conservative |-> cumulative.conservative, expected |-> cumulative.expected,
     optimistic |-> cumulative.optimistic]

\* the milestone lookup reading the optimistic scenario
FirstWeekReachingOptimistic(weeks, target) ==
    IF \E i \in 1..Len(weeks) : FLeq(target, FromInt(weeks[i].optimistic))
    THEN weeks[CHOOSE i \in 1..Len(weeks) :
                  /\ FLeq(target, FromInt(weeks[i].optimistic))
                  /\ \A j \in 1..(i - 1) : ~FLeq(target, FromInt(weeks[j].optimistic))].week
    ELSE 0

\* weeks.find(w => w.expected >= target)?.week ?? null, null modelled as 0
FirstWeekReaching(weeks, target) ==
    IF \E i \in 1..Len(weeks) : FLeq(target, FromInt(weeks[i].expected))
    THEN weeks[CHOOSE i \in 1..Len(weeks) :
                  /\ FLeq(target, FromInt(weeks[i].expected))
                  /\ \A j \in 1..(i - 1) : ~FLeq(target, FromInt(weeks[j].expected))].week
    ELSE 0

\* the value calculateTimeline returns once its loop has produced `weeks`
\* the returned timeline with the two marks exchanged: fiftyPercent found at
\* 90% of reachable and ninetyPercent at 50%
TimelineResultMarksSwapped(weeks, reachable) ==
    [weeks |-> weeks,
     totalWeeks |-> Len(weeks),
     milestonesExpected |->
        [announcementBump |-> 1,
         fiftyPercent |-> FirstWeekReaching(weeks, FMul(FromInt(reachable), Dec(9, 10))),
         ninetyPercent |-> FirstWeekReaching(weeks, FMul(FromInt(reachable), Dec(5, 10)))]]

TimelineResult(weeks, reachable) ==
    [weeks |-> weeks,
     totalWeeks |-> Len(weeks),
     milestonesExpected |->
        [announcementBump |-> 1,
         fiftyPercent |-> FirstWeekReaching(weeks, FMul(FromInt(reachable), Dec(5, 10))),
         ninetyPercent |-> FirstWeekReaching(weeks, FMul(FromInt(reachable), Dec(9, 10)))]]

RECURSIVE TimelineLoop(_, _, _, _)
TimelineLoop(weeks, cumulative, reachable, postFrequency) ==
    LET w == Len(weeks) + 1
        next == WeekStep(w, cumulative, reachable, postFrequency)
        pushed == Append(weeks, TimelineWeek(w, next))
    IN IF w = maxWeeks \/ Converged(next, reachable) THEN pushed
       ELSE TimelineLoop(pushed, next, reachable, postFrequency)

calculateTimeline(inp) ==
    LET reachable == calculateReachable(inp.tgSubscribers, inp.overlapPercent)
    IN TimelineResult(TimelineLoop(<<>>, [conservative |-> 0, expected |-> 0, optimistic |-> 0],
                                   reachable, inp.postFrequency),
                      reachable)

\* the recommendation with the gradual band starting above 70
RecommendedAbove70(overlapPercent) ==
    IF overlapPercent > 70 THEN "gradual" ELSE "parallel"

\* the if / else-if / else chain that picks the recommended strategy
Recommended(overlapPercent) ==
    IF overlapPercent >= 70 THEN "gradual"
    ELSE IF overlapPercent >= 30 THEN "parallel"
    ELSE "parallel"

\* the 90% week without the fallback for a null milestone
NinetyWeekNoFallback(tl) == tl.milestonesExpected.ninetyPercent

\* timeline.milestonesExpected.ninetyPercent ?? timeline.totalWeeks
NinetyWeek(tl) ==
    IF tl.milestonesExpected.ninetyPercent # 0 THEN tl.milestonesExpected.ninetyPercent
    ELSE tl.totalWeeks

\* Math.round(tgSubscribers * (1 - overlapPercent / 100)): the followers who
\* are not on WhatsApp, as the full-switch card and getRisks count them
NonOverlapCount(tgSubscribers, overlapPercent) ==
    MathRound(FMul(FromInt(tgSubscribers), FSub(One, FDiv(FromInt(overlapPercent), 100))))

\* the three cards, by type and timelineWeeks; of their texts only the count
\* of followers the full-switch card says are lost (`loses`) is modelled
StrategyCards(ninetyWeek, inp) ==
    << [type |-> "gradual", timelineWeeks |-> ninetyWeek, loses |-> 0],
       [type |-> "parallel", timelineWeeks |-> MathRound(FMul(FromInt(ninetyWeek), Dec(18, 10))),
        loses |-> 0],
       [type |-> "fullSwitch", timelineWeeks |-> Min(4, ninetyWeek),
        loses |-> NonOverlapCount(inp.tgSubscribers, inp.overlapPercent)] >>

\* the value getStrategy returns once its call of calculateTimeline has
\* returned `tl`
StrategyResult(inp, tl) ==
    [recommended |-> Recommended(inp.overlapPercent),
     cards |-> StrategyCards(NinetyWeek(tl), inp),
     isLargeChannel |-> inp.tgSubscribers >= 100000,
     showFullSwitchAsViable |-> inp.postFrequency = "daily" /\ inp.overlapPercent >= 80]

getStrategy(inp) == StrategyResult(inp, calculateTimeline(inp))

\* a Risk is [title, type, figures]: `figures` are the numbers its content
\* interpolates, in order; the rest of the text is not modelled
StaticRisk(title) == [title |-> title, type |-> "static", figures |-> <<>>]

DynamicRisk(title, figures) == [title |-> title, type |-> "dynamic", figures |-> figures]

getRisks(inp, projectedMonth6Followers) ==
    LET nonOverlapCount == NonOverlapCount(inp.tgSubscribers, inp.overlapPercent)
    IN [waiting |-> << StaticRisk("Algorithm arrives"),
                       StaticRisk("Competition saturates"),
                       DynamicRisk("Audience attrition on Telegram", <<inp.tgSubscribers>>),
                       DynamicRisk("Monetization miss", <<projectedMonth6Followers>>) >>,
        rushing |-> << StaticRisk("Audience confusion"),
                       StaticRisk("Content gap"),
                       DynamicRisk("Non-overlapping audience loss",
                                   <<nonOverlapCount, 100 - inp.overlapPercent>>),
                       StaticRisk("Trust erosion") >>]

\* timeline?.weeks[Math.min(23, (timeline?.weeks.length ?? 1) - 1)]?.expected ?? 0
ProjectedMonth6(tl) ==
    IF Len(tl.weeks) = 0 THEN 0 ELSE tl.weeks[Min(24, Len(tl.weeks))].expected

(***************************************************************************)
(* app/tools/whatsapp-vs-telegram/ComparisonTool.tsx                       *)
(*                                                                         *)
(* A Feature is [id, winner, creatorRelevant, businessRelevant,            *)
(* personalRelevant]; the texts and star scores of a row play no part in   *)
(* the filter or the tally.  The feature table is static data: a sequence  *)
(* of Features whose ids are their positions.                              *)
(***************************************************************************)
UseCaseOrder == <<"creator", "business", "personal">>

UseCases == {UseCaseOrder[i] : i \in 1..Len(UseCaseOrder)}

Winners == {"whatsapp", "telegram", "tie", "depends"}

RELEVANCE_MAP == [creator |-> "creatorRelevant", business |-> "businessRelevant",
                  personal |-> "personalRelevant"]

\* the filter left out: every feature is shown
FilteredFeaturesAll(table, uc) == table

\* comparisonData.features.filter(f => f[RELEVANCE_MAP[useCase]] === true)
FilteredFeatures(table, uc) == SelectSeq(table, LAMBDA f : f[RELEVANCE_MAP[uc]] = TRUE)

\* the tally with a "depends" row left out of every counter
TallyBucketSkippingDepends(f) ==
    IF f.winner = "whatsapp" THEN "wa"
    ELSE IF f.winner = "telegram" THEN "tg"
    ELSE IF f.winner = "tie" THEN "t"
    ELSE "none"

\* the counter the tally's if / else-if / else chain increments for a feature
TallyBucket(f) == IF f.winner = "whatsapp" THEN "wa"
                  ELSE IF f.winner = "telegram" THEN "tg"
                  ELSE "t"

CountBucket(filtered, bucket) ==
    Cardinality({i \in 1..Len(filtered) : TallyBucket(filtered[i]) = bucket})

ScoreCounts(filtered) == [waWins |-> CountBucket(filtered, "wa"),
                          tgWins |-> CountBucket(filtered, "tg"),
                          ties |-> CountBucket(filtered, "t")]

\* Math.round((wins / total) * 100)
WinPct(wins, total) == MathRound(FMul(FDiv(FromInt(wins), total), FromInt(100)))

\* the segments of the bar, left to right: a segment is rendered when its
\* percentage is above 0, with that percentage as its width
BarSegments(waPct, tiePct, tgPct) ==
    (IF waPct > 0 THEN <<[colour |-> "green", width |-> waPct]>> ELSE <<>>)
    \o (IF tiePct > 0 THEN <<[colour |-> "gray", width |-> tiePct]>> ELSE <<>>)
    \o (IF tgPct > 0 THEN <<[colour |-> "blue", width |-> tgPct]>> ELSE <<>>)

\* ScoreSummary({ waWins, tgWins, ties }): null for an empty tally, else the
\* three percentages and the bar rendered from them
ScoreSummary(waWins, tgWins, ties) ==
    LET total == waWins + tgWins + ties
        waPct == WinPct(waWins, total)
        tgPct == WinPct(tgWins, total)
        tiePct == 100 - waPct - tgPct
    IN IF total = 0 THEN [rendered |-> FALSE]
       ELSE [rendered |-> TRUE, waPct |-> waPct, tgPct |-> tgPct, tiePct |-> tiePct,
             segments |-> BarSegments(waPct, tiePct, tgPct)]

(***************************************************************************)
(* State.                                                                  *)
(*   phase        which call is running: "projecting" / "projected",       *)
(*                "benchmark" / "benchmarked", "simulating" / "simulated"  *)
(*                / "timeline", "tips" / "tipped", "mounting" / "form" /   *)
(*                "restored" (the growth form), "advising" / "mode" /      *)
(*                "strategy" / "risks", "copy" (the mounted CopyButton),   *)
(*                "comparison" (the mounted tool), or "score" / "scored"   *)
(*                (ScoreSummary)                                           *)
(*   inputs       the GrowthInputs of the running call                     *)
(*   nicheId      the id of the niche the inputs were built for            *)
(*   month        iterations of the projection loop completed              *)
(*   conservative, expected, optimistic                                    *)
(*                the projection loop's running counts                     *)
(*   monthly      the MonthProjection entries pushed so far                *)
(*   summary      the returned summary (NoResult until the call returns)   *)
(*   benchmark    the returned BenchmarkResult (NoResult until then)       *)
(*   migrationInputs  the MigrationInputs of the running call              *)
(*   w            iterations of the timeline loop completed                *)
(*   cumulative   the timeline loop's running counts per scenario          *)
(*   weeks        the TimelineWeek entries pushed so far                   *)
(*   timeline     the returned MigrationTimeline (NoResult until then)     *)
(*   features     comparisonData.features                                  *)
(*   useCase, expandedRows   ComparisonTool's two pieces of React state    *)
(*   tally        the props of the rendered ScoreSummary                   *)
(*   scoreBar     what ScoreSummary rendered (NoResult until it has)       *)
(*   milestones   the Milestone list calculateMilestones returned          *)
(*   tips         the Tip list generateTips returned                       *)
(*   mode         the Mode getMode returned                                *)
(*   strategy     the StrategyResult getStrategy returned                  *)
(*   risks        the RiskMatrix getRisks returned                         *)
(*   copied       CopyButton's React state                                 *)
(*   clicks       clicks CopyButton has handled; a click is named by its   *)
(*                number                                                   *)
(*   clipboardWrites  the clicks whose clipboard write has not settled     *)
(*   timers       the clicks whose setTimeout callback is pending, in the  *)
(*                order the timers were set                                *)
(***************************************************************************)
VARIABLES phase, inputs, nicheId, month, conservative, expected, optimistic, monthly, summary,
          benchmark, milestones, tips, migrationInputs, w, cumulative, weeks, timeline,
          mode, strategy, risks, features, useCase, expandedRows, tally, scoreBar,
          copied, clicks,
          clipboardWrites, timers

growthVars == <<inputs, nicheId, month, conservative, expected, optimistic, monthly, summary, benchmark,
                milestones, tips>>

migrationVars == <<migrationInputs, w, cumulative, weeks, timeline, mode, strategy, risks>>

scoreVars == <<tally, scoreBar>>

comparisonVars == <<features, useCase, expandedRows, scoreVars>>

copyVars == <<copied, clicks, clipboardWrites, timers>>

vars == <<phase, growthVars, migrationVars, comparisonVars, copyVars>>

NoResult == [none |-> TRUE]

NoInputs == [followers |-> 0, postsPerWeek |-> 0, engagementRate |-> 0, niche |-> NICHE_DATA[1]]

NoCounts == [conservative |-> 0, expected |-> 0, optimistic |-> 0]

GrowthIdle ==
    /\ inputs = NoInputs
    /\ nicheId = NoInputs.niche.id
    /\ month = 0
    /\ conservative = 0
    /\ expected = 0
    /\ optimistic = 0
    /\ monthly = <<>>
    /\ summary = NoResult
    /\ benchmark = NoResult
    /\ milestones = NoResult
    /\ tips = NoResult

MigrationIdle ==
    /\ migrationInputs = [tgSubscribers |-> 0, overlapPercent |-> 100, postFrequency |-> "2-3x"]
    /\ w = 0
    /\ cumulative = NoCounts
    /\ weeks = <<>>
    /\ timeline = NoResult
    /\ mode = NoResult
    /\ strategy = NoResult
    /\ risks = NoResult

ScoreIdle ==
    /\ tally = [waWins |-> 0, tgWins |-> 0, ties |-> 0]
    /\ scoreBar = NoResult

ComparisonIdle ==
    /\ features = <<>>
    /\ useCase = "creator"
    /\ expandedRows = {}
    /\ ScoreIdle

CopyIdle ==
    /\ copied = FALSE
    /\ clicks = 0
    /\ clipboardWrites = {}
    /\ timers = <<>>

(***************************************************************************)
(* Inputs of the growth specification: every niche; follower counts from   *)
(* the seeded zero through small channels to channels at and beyond the    *)
(* niche capacity; posting rates below, at and above the frequency cap;    *)
(* engagement rates from zero to above the engagement cap.                 *)
(***************************************************************************)
MaxSmallFollowers == 2

Niches == {NICHE_DATA[i] : i \in 1..Len(NICHE_DATA)}

FollowerSamples(niche) ==
    (0..MaxSmallFollowers) \cup {1000, niche.capacity \div 100, (niche.capacity * 19) \div 20,
                                 niche.capacity, 10000000}

PostSamples == {0, 10, 30}

EngagementSamples(niche) == {0, 1, 10 * niche.avgEngagement, 25 * niche.avgEngagement, 500}

\* an established General channel: 1000 followers, 3 posts a week, 8% engagement
EstablishedChannel ==
    [followers |-> 1000, postsPerWeek |-> 3, engagementRate |-> 80, niche |-> NICHE_DATA[1]]

GrowthInputSet ==
    UNION {[followers : FollowerSamples(n), postsPerWeek : PostSamples,
            engagementRate : EngagementSamples(n), niche : {n}] : n \in Niches}
    \cup {EstablishedChannel}

\* calculateProjections is called
InitGrowth ==
    /\ phase = "projecting"
    /\ inputs \in GrowthInputSet
    /\ nicheId = inputs.niche.id
    /\ month = 0
    /\ conservative = SeedFollowers(inputs)
    /\ expected = SeedFollowers(inputs)
    /\ optimistic = SeedFollowers(inputs)
    /\ monthly = <<>>
    /\ summary = NoResult
    /\ benchmark = NoResult
    /\ milestones = NoResult
    /\ tips = NoResult
    /\ MigrationIdle
    /\ ComparisonIdle
    /\ CopyIdle

\* one iteration of the projection loop
ProjectMonth ==
    /\ phase = "projecting"
    /\ month < ProjectionMonths
    /\ monthly' = Append(monthly, MonthStep(month + 1, conservative, expected, optimistic, inputs))
    /\ conservative' = monthly'[month + 1].conservative
    /\ expected' = monthly'[month + 1].expected
    /\ optimistic' = monthly'[month + 1].optimistic
    /\ month' = month + 1
    /\ UNCHANGED <<phase, inputs, nicheId, summary, benchmark, milestones, tips, migrationVars,
                   comparisonVars, copyVars>>

\* the loop is over: calculateProjections returns
ProjectReturn ==
    /\ phase = "projecting"
    /\ month = ProjectionMonths
    /\ summary' = SummaryOf(monthly)
    /\ phase' = "projected"
    /\ UNCHANGED <<inputs, nicheId, month, conservative, expected, optimistic, monthly, benchmark,
                   milestones, tips, migrationVars, comparisonVars, copyVars>>

\* calculateMilestones is called with the projection and returns
Milestones ==
    /\ phase = "projected"
    /\ milestones' = calculateMilestones(inputs, [monthly |-> monthly, summary |-> summary])
    /\ phase' = "milestones"
    /\ UNCHANGED <<inputs, nicheId, month, conservative, expected, optimistic, monthly, summary,
                   benchmark, tips, migrationVars, comparisonVars, copyVars>>

NextGrowth == ProjectMonth \/ ProjectReturn \/ Milestones

SpecGrowth == InitGrowth /\ [][NextGrowth]_vars

\* the count a scenario held before month i was computed
CountBefore(i, scenario) ==
    IF i = 1 THEN SeedFollowers(inputs) ELSE monthly[i - 1][scenario]

\* C1: in every scenario the follower count never decreases from one month to
\* the next, and month 1 is at least the (seeded) starting count.
C1_MonthlyNonDecreasing ==
    \A i \in 1..Len(monthly) :
        \A scenario \in {"conservative", "expected", "optimistic"} :
            monthly[i][scenario] >= CountBefore(i, scenario)

\* a finished projection from the seed in which every scenario grew in month 1
\* and again in month 12
C1_Witness ==
    /\ phase = "projected"
    /\ inputs.followers = 0
    /\ \A scenario \in {"conservative", "expected", "optimistic"} :
          /\ monthly[1][scenario] > SeedCount
          /\ monthly[12][scenario] > monthly[11][scenario]

\* C2: in every month conservative <= expected <= optimistic.
C2_ScenariosOrdered ==
    \A i \in 1..Len(monthly) :
        /\ monthly[i].conservative <= monthly[i].expected
        /\ monthly[i].expected <= monthly[i].optimistic

\* a finished projection whose scenarios ran apart, so that each one's dampening
\* was computed from a different count, and are strictly ordered in month 12
C2_Witness ==
    /\ phase = "projected"
    /\ monthly[6].conservative < monthly[6].expected
    /\ monthly[6].expected < monthly[6].optimistic
    /\ monthly[12].conservative < monthly[12].expected
    /\ monthly[12].expected < monthly[12].optimistic

\* calculateEffectiveRate(50, ...) for the inputs of the running call
RateAtSeed ==
    calculateEffectiveRate(50, EngagementRate(inputs), inputs.postsPerWeek, inputs.niche)

\* C8 (as amended): with followers = 0 the first month's expected count is
\* round(50 x (1 + effectiveRate(50))), and it is strictly greater than 50
\* whenever that effective monthly rate is at least 1%.
C8_SeededFirstMonth ==
    (inputs.followers = 0 /\ Len(monthly) >= 1) =>
        /\ monthly[1].expected = MathRound(FMul(FromInt(50), FAdd(One, RateAtSeed)))
        /\ FLeq(Dec(1, 100), RateAtSeed) => monthly[1].expected > 50

\* C8 as the specification states it: strictly greater than 50 whenever
\* engagementRate > 0
C8_SeededFirstMonthGrows ==
    (inputs.followers = 0 /\ Len(monthly) >= 1) =>
        /\ monthly[1].expected = MathRound(FMul(FromInt(50), FAdd(One, RateAtSeed)))
        /\ inputs.engagementRate > 0 => monthly[1].expected > 50

\* the first month of a projection from the seed, at a rate of at least 1%
C8_Witness ==
    /\ inputs.followers = 0
    /\ Len(monthly) = 1
    /\ FLeq(Dec(1, 100), RateAtSeed)
    /\ monthly[1].expected > 50

\* engagement rates (in tenths of a percent) at or above 2.5 x avgEngagement
CappedEngagement(niche) == {25 * niche.avgEngagement, 25 * niche.avgEngagement + 1, 500}

\* postsPerWeek values at or above 10
CappedPosts == {10, 11, 30}

\* the inputs of the running call with each capped value exchanged for another
\* capped value
CappedTwin ==
    [inputs EXCEPT
        !.engagementRate = IF @ < 25 * inputs.niche.avgEngagement THEN @
                           ELSE IF @ = 500 THEN 25 * inputs.niche.avgEngagement ELSE 500,
        !.postsPerWeek = IF @ < 10 THEN @ ELSE IF @ = 30 THEN 10 ELSE 30]

\* C9: at every follower count the projection passes through,
\* calculateEffectiveRate is the same for every engagement rate at or above
\* 2.5 x avgEngagement and for every postsPerWeek at or above 10, and the
\* returned projection is the same as for the inputs with the capped values
\* exchanged.
C9_CappedInputsAgree ==
    LET rate == calculateEffectiveRate(expected, EngagementRate(inputs), inputs.postsPerWeek,
                                       inputs.niche)
    IN /\ inputs.engagementRate >= 25 * inputs.niche.avgEngagement =>
            \A e \in CappedEngagement(inputs.niche) :
                calculateEffectiveRate(expected, Dec(e, 10), inputs.postsPerWeek, inputs.niche)
                    = rate
       /\ inputs.postsPerWeek >= 10 =>
            \A posts \in CappedPosts :
                calculateEffectiveRate(expected, EngagementRate(inputs), posts, inputs.niche)
                    = rate
       /\ (phase = "projected" /\ CappedTwin # inputs) =>
            calculateProjections(CappedTwin) = [monthly |-> monthly, summary |-> summary]

\* a finished, growing projection with both inputs above their caps
C9_Witness ==
    /\ phase = "projected"
    /\ inputs.engagementRate = 500
    /\ inputs.engagementRate > 25 * inputs.niche.avgEngagement
    /\ inputs.postsPerWeek = 30
    /\ summary.expected > SeedFollowers(inputs)

\* followers within 5% of niche.capacity
NearCapacity(inp) ==
    /\ 20 * inp.followers >= 19 * inp.niche.capacity
    /\ 20 * inp.followers <= 21 * inp.niche.capacity

\* starting counts of at most 1% of niche.capacity
FarStarts(niche) == {MaxSmallFollowers, 1000, niche.capacity \div 100}

\* summary.expected of the projection from `start`, other inputs as in the
\* running call
ExpectedAfterYear(start) ==
    calculateProjections([inputs EXCEPT !.followers = start]).summary.expected

\* gainA / startA < gainB / startB; the products are below 2^53, so exact
SmallerGrowth(gainA, startA, gainB, startB) ==
    FLess(FMul(FromInt(gainA), FromInt(startB)), FMul(FromInt(gainB), FromInt(startA)))

\* C10 (as amended): the 12-month expected growth percentage from a start within
\* 5% of capacity is smaller than the one from any start of at most 1% of
\* capacity whose own projection grows at all.
C10_SaturationWhenFarStartGrows ==
    (phase = "projected" /\ NearCapacity(inputs)) =>
        \A far \in FarStarts(inputs.niche) :
            LET farEnd == ExpectedAfterYear(far)
            IN farEnd > far =>
                  SmallerGrowth(summary.expected - inputs.followers, inputs.followers,
                                farEnd - far, far)

\* C10 as the specification states it: smaller than the growth percentage of
\* any start of at most 1% of capacity
C10_Saturation ==
    (phase = "projected" /\ NearCapacity(inputs)) =>
        \A far \in FarStarts(inputs.niche) :
            SmallerGrowth(summary.expected - inputs.followers, inputs.followers,
                          ExpectedAfterYear(far) - far, far)

\* a finished projection from 95% of capacity that grew, while the projection
\* from 1% of capacity grew too
C10_Witness ==
    /\ phase = "projected"
    /\ 20 * inputs.followers = 19 * inputs.niche.capacity
    /\ summary.expected > inputs.followers
    /\ ExpectedAfterYear(inputs.niche.capacity \div 100) > 2 * (inputs.niche.capacity \div 100)

\* the follower count calculateMilestones compares the targets with
SeededFollowers == IF inputs.followers = 0 THEN 50 ELSE inputs.followers

\* C11: calculateMilestones returns exactly the targets among 10,000 / 50,000 /
\* 100,000 / 500,000 / 1,000,000 that are strictly greater than the (seeded)
\* current follower count, in ascending order, and never a target at or below
\* that count.
C11_MilestonesAboveCurrent ==
    phase = "milestones" =>
        /\ \A i \in 1..Len(milestones) : milestones[i].target > SeededFollowers
        /\ {milestones[i].target : i \in 1..Len(milestones)}
             = {t \in {10000, 50000, 100000, 500000, 1000000} : t > SeededFollowers}
        /\ \A i \in 1..Len(milestones) : \A j \in 1..Len(milestones) :
              i < j => milestones[i].target < milestones[j].target

\* milestones returned for a channel standing exactly on the first target,
\* which is left out
C11_Witness ==
    /\ phase = "milestones"
    /\ inputs.followers = 10000
    /\ Len(milestones) = 4
    /\ milestones[1].target = 50000

\* a count grown by one month at its own effective rate times tenths/10,
\* rounded after the growth
GrownAtOwnRate(count, tenths) ==
    MathRound(FMul(FromInt(count),
                   FAdd(One, FMul(calculateEffectiveRate(count, EngagementRate(inputs),
                                                         inputs.postsPerWeek, inputs.niche),
                                  Dec(tenths, 10)))))

\* the counts the month just pushed started from
CountsBefore(i) == IF i = 1 THEN [conservative |-> SeedFollowers(inputs),
                                  expected |-> SeedFollowers(inputs),
                                  optimistic |-> SeedFollowers(inputs)]
                   ELSE monthly[i - 1]

\* C18: each month of calculateProjections advances every scenario from its
\* own count by round(count x (1 + calculateEffectiveRate(own count) x
\* multiplier)), the multipliers being 0.6, 1.0 and 1.5; for 1000 followers,
\* 3 posts a week and 8% engagement in the General niche the expected count
\* of month 1 is 1040.
C18_ScenariosAdvanceIndependently ==
    (phase = "projecting" /\ month >= 1) =>
        /\ monthly[month].conservative = GrownAtOwnRate(CountsBefore(month).conservative, 6)
        /\ monthly[month].expected = GrownAtOwnRate(CountsBefore(month).expected, 10)
        /\ monthly[month].optimistic = GrownAtOwnRate(CountsBefore(month).optimistic, 15)
        /\ inputs = EstablishedChannel => monthly[1].expected = 1040

\* the second month of the established channel, the three scenarios having
\* left the common start at different counts
C18_Witness ==
    /\ phase = "projecting"
    /\ month = 2
    /\ inputs = EstablishedChannel
    /\ monthly[1].expected = 1040
    /\ monthly[1].conservative < monthly[1].expected
    /\ monthly[1].expected < monthly[1].optimistic
    /\ monthly[2].expected = GrownAtOwnRate(1040, 10)

(***************************************************************************)
(* Inputs of the benchmark specification: every niche, every posting rate  *)
(* up to MaxPostsPerWeek and every engagement rate, in tenths of a percent *)
(* as the form's slider steps, up to MaxEngagementTenths.                  *)
(***************************************************************************)
MaxPostsPerWeek == 10

MaxEngagementTenths == 500

BenchmarkInputSet ==
    [followers : {1000}, postsPerWeek : 0..MaxPostsPerWeek,
     engagementRate : 0..MaxEngagementTenths, niche : Niches]

InitBenchmark ==
    /\ phase = "benchmark"
    /\ inputs \in BenchmarkInputSet
    /\ nicheId = inputs.niche.id
    /\ month = 0
    /\ conservative = 0
    /\ expected = 0
    /\ optimistic = 0
    /\ monthly = <<>>
    /\ summary = NoResult
    /\ benchmark = NoResult
    /\ milestones = NoResult
    /\ tips = NoResult
    /\ MigrationIdle
    /\ ComparisonIdle
    /\ CopyIdle

\* calculateBenchmark is called and returns
Benchmark ==
    /\ phase = "benchmark"
    /\ benchmark' = calculateBenchmark(inputs)
    /\ phase' = "benchmarked"
    /\ UNCHANGED <<inputs, nicheId, month, conservative, expected, optimistic, monthly, summary,
                   milestones, tips, migrationVars, comparisonVars, copyVars>>

NextBenchmark == Benchmark

SpecBenchmark == InitBenchmark /\ [][NextBenchmark]_vars

\* the combined score calculateBenchmark computes lies in [0.5, 0.8)
ScoreInThirtyBand == LET combinedScore == CombinedScore(inputs)
                     IN FLeq(Dec(5, 10), combinedScore) /\ FLess(combinedScore, Dec(8, 10))

\* C5 (as amended): an input whose combined score, as calculateBenchmark
\* computes it, lies in [0.5, 0.8) gets percentile 30 with the label
\* "Below Average".
C5_ThirtyIsBelowAverage ==
    (phase = "benchmarked" /\ ScoreInThirtyBand) =>
        /\ benchmark.percentile = 30
        /\ benchmark.label = "Below Average"

\* C5 as the specification states it: percentile 30 with the label "Average"
C5_ThirtyIsAverage ==
    (phase = "benchmarked" /\ ScoreInThirtyBand) =>
        /\ benchmark.percentile = 30
        /\ benchmark.label = "Average"

\* a benchmark returned for a score inside the band, away from both ends
C5_Witness ==
    /\ phase = "benchmarked"
    /\ ScoreInThirtyBand
    /\ FLess(Dec(6, 10), CombinedScore(inputs))
    /\ FLess(CombinedScore(inputs), Dec(7, 10))
    /\ benchmark.percentile = 30

\* 0.6 x (engagementRate / avgEngagement) + 0.4 x (postsPerWeek / 5) >= tenths / 10
\* in exact arithmetic: with engagementRate in tenths of a percent, 50 x
\* avgEngagement x score = 3 x engagementRate + 4 x avgEngagement x postsPerWeek
ExactScoreAtLeast(inp, tenths) ==
    3 * inp.engagementRate + 4 * inp.niche.avgEngagement * inp.postsPerWeek
        >= 5 * inp.niche.avgEngagement * tenths

ReferencePercentile(inp) ==
    IF ExactScoreAtLeast(inp, 20) THEN 95
    ELSE IF ExactScoreAtLeast(inp, 15) THEN 85
    ELSE IF ExactScoreAtLeast(inp, 11) THEN 70
    ELSE IF ExactScoreAtLeast(inp, 8) THEN 50
    ELSE IF ExactScoreAtLeast(inp, 5) THEN 30
    ELSE 15

ReferenceLabel(percentile) ==
    CASE percentile >= 90 -> "Top 5%"
      [] percentile < 90 /\ percentile >= 80 -> "Top 15%"
      [] percentile < 80 /\ percentile >= 60 -> "Above Average"
      [] percentile < 60 /\ percentile >= 40 -> "Average"
      [] OTHER -> "Below Average"

\* C6: the result equals the two-ladder reference: the percentile follows the
\* combined score 0.6 x engagementVsNiche + 0.4 x frequencyVsNiche, the label
\* follows the percentile alone, engagementVsNiche = engagementRate /
\* avgEngagement and frequencyVsNiche = postsPerWeek / 5.
C6_MatchesReference ==
    phase = "benchmarked" =>
        /\ benchmark.percentile = ReferencePercentile(inputs)
        /\ benchmark.label = ReferenceLabel(benchmark.percentile)
        /\ benchmark.engagementVsNiche = FDiv(Dec(inputs.engagementRate, 10),
                                              inputs.niche.avgEngagement)
        /\ benchmark.frequencyVsNiche = FDiv(FromInt(inputs.postsPerWeek), 5)

(***************************************************************************)
(* Inputs of the tips specification: every niche; follower counts on both  *)
(* sides of 100; posting rates on both sides of 3 and of 10; every         *)
(* engagement rate, in tenths of a percent, up to MaxTipEngagementTenths,  *)
(* which lies above one and a half times the largest niche average.        *)
(***************************************************************************)
MaxTipEngagementTenths == 240

TipFollowers == {0, 99, 100, 1000}

TipPostsPerWeek == {0, 2, 3, 10, 11}

TipInputSet ==
    [followers : TipFollowers, postsPerWeek : TipPostsPerWeek,
     engagementRate : 0..MaxTipEngagementTenths, niche : Niches]

InitTips ==
    /\ phase = "tips"
    /\ inputs \in TipInputSet
    /\ nicheId = inputs.niche.id
    /\ month = 0
    /\ conservative = 0
    /\ expected = 0
    /\ optimistic = 0
    /\ monthly = <<>>
    /\ summary = NoResult
    /\ benchmark = NoResult
    /\ milestones = NoResult
    /\ tips = NoResult
    /\ MigrationIdle
    /\ ComparisonIdle
    /\ CopyIdle

\* generateTips is called and returns
GenerateTips ==
    /\ phase = "tips"
    /\ tips' = generateTips(inputs)
    /\ phase' = "tipped"
    /\ UNCHANGED <<inputs, nicheId, month, conservative, expected, optimistic, monthly, summary,
                   benchmark, milestones, migrationVars, comparisonVars, copyVars>>

NextTips == GenerateTips

SpecTips == InitTips /\ [][NextTips]_vars

\* C15: generateTips returns between 1 and 4 tips whose last element is the
\* general 'Low' tip, and the threshold rules push at most three tips before
\* it, so the cut to four tips never removes it.
C15_GeneralTipLast ==
    phase = "tipped" =>
        /\ Len(tips) \in 1..4
        /\ tips[Len(tips)] = GeneralTip
        /\ \A i \in 1..(Len(tips) - 1) : tips[i] # GeneralTip
        /\ Len(ThresholdTips(inputs)) <= 3
        /\ Len(tips) = Len(ThresholdTips(inputs)) + 1

\* three threshold rules fired: engagement well below the average, fewer
\* than three posts a week, fewer than 100 followers
C15_Witness ==
    /\ phase = "tipped"
    /\ Len(tips) = 4
    /\ tips[1].text = "engagementWellBelow"
    /\ tips[2].text = "postMore"
    /\ tips[3].text = "promote"
    /\ tips[4].priority = "Low"

(***************************************************************************)
(* The form of GrowthCalculator.tsx.  Its React state is followers,        *)
(* postsPerWeek, engagementRate and nicheId; every render derives          *)
(* niche = getNicheById(nicheId) and the GrowthInputs handed to the growth *)
(* model, held here in `inputs`.  The followers display text plays no part *)
(* in the inputs.  A URL parameter that is absent or not a number has the  *)
(* effect of one outside the accepted range; a field of the saved record   *)
(* that is absent has the effect of a falsy one (0 or ""), except          *)
(* followers, which is tested against undefined.                           *)
(***************************************************************************)
MaxFollowers == 10000000

FormInputs(followers, postsPerWeek, engagementRate, id) ==
    [followers |-> followers, postsPerWeek |-> postsPerWeek, engagementRate |-> engagementRate,
     niche |-> getNicheById(id)]

UrlFollowers == {-1, 0, 2500, MaxFollowers + 1}

UrlPosts == {0, 7, 31}

UrlEngagement == {0, 120, 501}

UrlNiches == {"", "tech", "unknown"}

SavedNicheIds == {"", "news", "unknown", "General"}

\* the records JSON.parse can return for the saved text: the ones the tool
\* saves itself and records with numbers it would never save
SavedRecords ==
    [postsPerWeek : {0, 7, 100}, engagementRate : {0, 120, 800}, nicheId : SavedNicheIds]
    \cup [followers : {-5, 5000, 2 * MaxFollowers}, postsPerWeek : {0, 7, 100},
          engagementRate : {0, 120, 800}, nicheId : SavedNicheIds]

FollowerEntries == {0, 99, MaxFollowers + 1}

PostsSlider == {1, 30}

EngagementSlider == {1, 500}

InitForm ==
    /\ phase = "mounting"
    /\ nicheId = "general"
    /\ inputs = FormInputs(0, 3, 50, "general")
    /\ month = 0
    /\ conservative = 0
    /\ expected = 0
    /\ optimistic = 0
    /\ monthly = <<>>
    /\ summary = NoResult
    /\ benchmark = NoResult
    /\ milestones = NoResult
    /\ tips = NoResult
    /\ MigrationIdle
    /\ ComparisonIdle
    /\ CopyIdle

Mounted == phase \in {"form", "restored"}

\* the new form state is rendered
Render(followers, postsPerWeek, engagementRate, id) ==
    /\ nicheId' = id
    /\ inputs' = FormInputs(followers, postsPerWeek, engagementRate, id)
    /\ UNCHANGED <<month, conservative, expected, optimistic, monthly, summary, benchmark,
                   milestones, tips, migrationVars, comparisonVars, copyVars>>

\* the effect that reads the URL parameters on mount
LoadUrlParams ==
    /\ phase = "mounting"
    /\ \E f \in UrlFollowers, p \in UrlPosts, e \in UrlEngagement, n \in UrlNiches :
           Render(IF f >= 0 /\ f <= MaxFollowers THEN f ELSE inputs.followers,
                  IF p >= 1 /\ p <= 30 THEN p ELSE inputs.postsPerWeek,
                  IF e >= 1 /\ e <= 500 THEN e ELSE inputs.engagementRate,
                  IF n # "" /\ NichesWithId(n) # {} THEN n ELSE nicheId)
    /\ phase' = "form"

\* the effect that restores the record saved before the signup redirect
RestoreSaved ==
    /\ phase = "form"
    /\ \E parsed \in SavedRecords :
           Render(IF "followers" \in DOMAIN parsed THEN parsed.followers ELSE inputs.followers,
                  IF parsed.postsPerWeek # 0 THEN parsed.postsPerWeek ELSE inputs.postsPerWeek,
                  IF parsed.engagementRate # 0 THEN parsed.engagementRate
                  ELSE inputs.engagementRate,
                  IF parsed.nicheId # "" THEN parsed.nicheId ELSE nicheId)
    /\ phase' = "restored"

\* handleFollowersChange(val), num being the digits of val (0 if none)
HandleFollowersChange ==
    /\ Mounted
    /\ \E num \in FollowerEntries :
           Render(IF num < MaxFollowers THEN num ELSE MaxFollowers,
                  inputs.postsPerWeek, inputs.engagementRate, nicheId)
    /\ UNCHANGED phase

\* the posts slider is moved
SetPostsPerWeek ==
    /\ Mounted
    /\ \E p \in PostsSlider :
           Render(inputs.followers, p, inputs.engagementRate, nicheId)
    /\ UNCHANGED phase

\* the engagement slider is moved
SetEngagementRate ==
    /\ Mounted
    /\ \E e \in EngagementSlider :
           Render(inputs.followers, inputs.postsPerWeek, e, nicheId)
    /\ UNCHANGED phase

\* an option of the niche select is chosen
SetNicheId ==
    /\ Mounted
    /\ \E i \in DOMAIN NICHE_OPTIONS :
           Render(inputs.followers, inputs.postsPerWeek, inputs.engagementRate,
                  NICHE_OPTIONS[i])
    /\ UNCHANGED phase

\* handleUseNicheAverage
HandleUseNicheAverage ==
    /\ Mounted
    /\ Render(inputs.followers, inputs.postsPerWeek, 10 * inputs.niche.avgEngagement, nicheId)
    /\ UNCHANGED phase

NextForm ==
    \/ LoadUrlParams
    \/ RestoreSaved
    \/ HandleFollowersChange
    \/ SetPostsPerWeek
    \/ SetEngagementRate
    \/ SetNicheId
    \/ HandleUseNicheAverage

SpecForm == InitForm /\ [][NextForm]_vars

\* C16: getNicheById always returns a niche of the table: the niche with the
\* id when the table has one, the first niche ('general') for any other id.
C16_LookupFallsBackOnFirst ==
    /\ inputs.niche \in Niches
    /\ \A i \in DOMAIN NICHE_DATA : nicheId = NICHE_DATA[i].id => inputs.niche = NICHE_DATA[i]
    /\ (\A i \in DOMAIN NICHE_DATA : nicheId # NICHE_DATA[i].id) =>
           inputs.niche = NICHE_DATA[1] /\ inputs.niche.id = "general"

\* the form holds an id the table does not have and computes with 'general'
C16_Witness ==
    /\ phase = "restored"
    /\ nicheId = "unknown"
    /\ inputs.niche.id = "general"

\* C23: the inputs handed to calculateProjections satisfy
\* 0 <= followers <= 10,000,000, 1 <= postsPerWeek <= 30 and
\* 0.1 <= engagementRate <= 50, whatever URL parameters were loaded, edits
\* made and parsable record restored.
C23_InputsValidated ==
    /\ inputs.followers >= 0
    /\ inputs.followers <= MaxFollowers
    /\ inputs.postsPerWeek >= 1
    /\ inputs.postsPerWeek <= 30
    /\ inputs.engagementRate >= 1
    /\ inputs.engagementRate <= 500

(***************************************************************************)
(* Inputs of the migration specification: every subscriber count up to     *)
(* MaxSmallSubscribers (where rounding decides the early exit), the mode   *)
(* boundary, and channels up to the form's maximum; overlaps across the    *)
(* slider's range; every posting frequency.                                *)
(***************************************************************************)
MaxSmallSubscribers == 12

SubscriberSamples ==
    (0..MaxSmallSubscribers) \cup {30, 34, 49, 50, 100, 1000, 1203, 10000, 10000000}

OverlapSamples == {10, 45, 70, 85, 100}

MigrationInputSet == [tgSubscribers : SubscriberSamples, overlapPercent : OverlapSamples,
                      postFrequency : PostFrequencies]

Reachable == calculateReachable(migrationInputs.tgSubscribers, migrationInputs.overlapPercent)

\* calculateTimeline is called
InitMigration ==
    /\ phase = "simulating"
    /\ migrationInputs \in MigrationInputSet
    /\ w = 0
    /\ cumulative = NoCounts
    /\ weeks = <<>>
    /\ timeline = NoResult
    /\ mode = NoResult
    /\ strategy = NoResult
    /\ risks = NoResult
    /\ GrowthIdle
    /\ ComparisonIdle
    /\ CopyIdle

\* one iteration of the timeline loop, with its test for leaving the loop
SimulateWeek ==
    /\ phase = "simulating"
    /\ w < maxWeeks
    /\ cumulative' = WeekStep(w + 1, cumulative, Reachable, migrationInputs.postFrequency)
    /\ weeks' = Append(weeks, TimelineWeek(w + 1, cumulative'))
    /\ w' = w + 1
    /\ phase' = IF w' = maxWeeks \/ Converged(cumulative', Reachable) THEN "simulated"
                ELSE "simulating"
    /\ UNCHANGED <<migrationInputs, timeline, mode, strategy, risks, growthVars, comparisonVars,
                   copyVars>>

\* the milestones are looked up and calculateTimeline returns
TimelineReturn ==
    /\ phase = "simulated"
    /\ timeline' = TimelineResult(weeks, Reachable)
    /\ phase' = "timeline"
    /\ UNCHANGED <<migrationInputs, w, cumulative, weeks, mode, strategy, risks, growthVars,
                   comparisonVars, copyVars>>

NextMigration == SimulateWeek \/ TimelineReturn

SpecMigration == InitMigration /\ [][NextMigration]_vars

\* C3: in every simulated week and every scenario the cumulative count is at
\* most calculateReachable(tgSubscribers, overlapPercent).
C3_CumulativeWithinReachable ==
    \A i \in 1..Len(weeks) :
        /\ weeks[i].conservative <= Reachable
        /\ weeks[i].expected <= Reachable
        /\ weeks[i].optimistic <= Reachable

\* a week in which the optimistic scenario's gain would have passed the
\* reachable audience and the count was held at it
C3_Witness ==
    /\ Len(weeks) >= 2
    /\ Reachable >= 100
    /\ weeks[Len(weeks)].optimistic = Reachable
    /\ weeks[Len(weeks) - 1].optimistic < Reachable
    /\ weeks[Len(weeks) - 1].optimistic
         + NewFollowers(Len(weeks), "optimistic", Reachable, migrationInputs.postFrequency)
         > Reachable

\* C4: the returned weeks are numbered 1..n with 1 <= n <= 24 and
\* totalWeeks = n; every week before the last has conservative below 95% of
\* reachable, and if n < 24 the last week has conservative at or above it.
C4_StopsAtFirstConvergedWeek ==
    phase = "timeline" =>
        LET n == Len(timeline.weeks)
        IN /\ n >= 1
           /\ n <= 24
           /\ timeline.totalWeeks = n
           /\ \A i \in 1..n : timeline.weeks[i].week = i
           /\ \A i \in 1..(n - 1) : 100 * timeline.weeks[i].conservative < 95 * Reachable
           /\ n < 24 => 100 * timeline.weeks[n].conservative >= 95 * Reachable

\* a returned timeline that left the loop early, after more than one week
C4_Witness ==
    /\ phase = "timeline"
    /\ timeline.totalWeeks > 1
    /\ timeline.totalWeeks < 24
    /\ Reachable > 0
    /\ 100 * timeline.weeks[timeline.totalWeeks].conservative >= 95 * Reachable

\* the base conversion rate of week i, in percent
WeekRatePercent(i) ==
    IF i = 1 THEN 20 ELSE IF i = 2 THEN 12 ELSE IF i = 3 THEN 10 ELSE IF i = 4 THEN 8
    ELSE IF i = 5 THEN 6 ELSE IF i = 6 THEN 5 ELSE IF i = 7 THEN 4 ELSE IF i = 8 THEN 3 ELSE 2

\* the frequency multiplier, in tenths
FrequencyTenths(postFrequency) ==
    IF postFrequency = "daily" THEN 13 ELSE IF postFrequency = "2-3x" THEN 10
    ELSE IF postFrequency = "weekly" THEN 7 ELSE 4

\* round(reachable x baseRate x freqMult x scenarioMult) for week i, the
\* scenario multiplier given in tenths
WeekGain(i, reachable, scenarioTenths) ==
    MathRound(FMul(FromInt(reachable),
                   FMul(FMul(Dec(WeekRatePercent(i), 100),
                             Dec(FrequencyTenths(migrationInputs.postFrequency), 10)),
                        Dec(scenarioTenths, 10))))

\* the cumulative counts the week just pushed started from
CumulativeBefore(i) == IF i = 1 THEN NoCounts ELSE weeks[i - 1]

\* C19: each week of calculateTimeline adds to every scenario
\* round(reachable x baseRate[week] x freqMult x scenarioMult) and holds the
\* sum at reachable, with base rates 20, 12, 10, 8, 6, 5, 4, 3% for weeks 1..8
\* and 2% from week 9, frequency multipliers 1.3 / 1.0 / 0.7 / 0.4 and
\* scenario multipliers 0.7 / 1.0 / 1.4; 10000 subscribers at 85% overlap
\* posting '2-3x' have 8500 reachable and 1700 expected followers in week 1.
C19_WeeklyGain ==
    (phase \in {"simulating", "simulated"} /\ w >= 1) =>
        \A r \in {Reachable} :
            /\ weeks[w].conservative =
                   Min(CumulativeBefore(w).conservative + WeekGain(w, r, 7), r)
            /\ weeks[w].expected = Min(CumulativeBefore(w).expected + WeekGain(w, r, 10), r)
            /\ weeks[w].optimistic =
                   Min(CumulativeBefore(w).optimistic + WeekGain(w, r, 14), r)
            /\ (/\ migrationInputs.tgSubscribers = 10000
                /\ migrationInputs.overlapPercent = 85
                /\ migrationInputs.postFrequency = "2-3x") =>
                   r = 8500 /\ weeks[1].expected = 1700

\* the tenth week of the 10000-subscriber example: past the table of base
\* rates, the expected scenario still gaining 2% of 8500
C19_Witness ==
    /\ phase = "simulating"
    /\ migrationInputs.tgSubscribers = 10000
    /\ migrationInputs.overlapPercent = 85
    /\ migrationInputs.postFrequency = "weekly"
    /\ w = 10
    /\ weeks[1].expected = 1190
    /\ weeks[10].expected = weeks[9].expected + 119
    /\ weeks[10].expected < Reachable

\* the weeks of `wks` in which the expected scenario stands at or above
\* tenths/10 of reachable
WeeksAtOrAbove(wks, tenths, reachable) ==
    {i \in 1..Len(wks) : 10 * wks[i].expected >= tenths * reachable}

\* the smallest element of a non-empty set of week numbers
FirstOf(S) == CHOOSE i \in S : \A j \in S : i <= j

\* the first week of `wks` at or above tenths/10 of reachable, 0 if none
FirstWeekAtOrAbove(wks, tenths, reachable) ==
    LET reached == WeeksAtOrAbove(wks, tenths, reachable)
    IN IF reached = {} THEN 0 ELSE FirstOf(reached)

\* C20: milestonesExpected.fiftyPercent and ninetyPercent are the first
\* simulated weeks in which the expected scenario's cumulative count is at
\* least 50% and 90% of reachable, and null (0) exactly when no simulated
\* week reaches the mark; the other two scenarios play no part.
C20_ExpectedMilestones ==
    phase = "timeline" =>
        \A r \in {Reachable} :
            /\ timeline.milestonesExpected.fiftyPercent = FirstWeekAtOrAbove(weeks, 5, r)
            /\ timeline.milestonesExpected.ninetyPercent = FirstWeekAtOrAbove(weeks, 9, r)
            /\ timeline.milestonesExpected.fiftyPercent = 0
                   <=> \A i \in 1..Len(weeks) : 2 * weeks[i].expected < r
            /\ timeline.milestonesExpected.ninetyPercent = 0
                   <=> \A i \in 1..Len(weeks) : 10 * weeks[i].expected < 9 * r

\* a timeline whose expected scenario passes 50% after the first week, the
\* optimistic one having passed it earlier, and never reaches 90%
C20_Witness ==
    /\ phase = "timeline"
    /\ timeline.milestonesExpected.fiftyPercent > 1
    /\ 2 * weeks[timeline.milestonesExpected.fiftyPercent - 1].optimistic >= Reachable
    /\ timeline.milestonesExpected.ninetyPercent = 0
    /\ timeline.totalWeeks = maxWeeks

\* a returned timeline for a channel in full mode posting 2-3 times a week
FullModeTwoThree ==
    /\ phase = "timeline"
    /\ migrationInputs.tgSubscribers >= 50
    /\ migrationInputs.postFrequency = "2-3x"

\* C24 (as amended): in full mode with postFrequency '2-3x' the expected
\* scenario reaches 50% of reachable in week 3, 4 or 5; when reachable is
\* above 275 it reaches 90% in week 19 or 20, and for a smaller reachable
\* audience it reaches 90% in some week from 13 to 24 or not at all.
C24_PaceWithRounding ==
    FullModeTwoThree =>
        \A r \in {Reachable} :
            /\ timeline.milestonesExpected.fiftyPercent \in 3..5
            /\ r > 275 => timeline.milestonesExpected.ninetyPercent \in {19, 20}
            /\ r <= 275 => timeline.milestonesExpected.ninetyPercent \in {0} \cup (13..24)

\* C24 as the specification states it: 50% within 4 weeks and 90% at a week
\* between 12 and 20
C24_FiftyByFourNinetyByTwenty ==
    FullModeTwoThree =>
        /\ timeline.milestonesExpected.fiftyPercent \in 1..4
        /\ timeline.milestonesExpected.ninetyPercent \in 12..20

\* a large audience whose rounded weekly gains leave the expected scenario
\* just short of 50% after four weeks
C24_Witness ==
    /\ FullModeTwoThree
    /\ Reachable = 1203
    /\ 2 * weeks[4].expected < Reachable
    /\ timeline.milestonesExpected.fiftyPercent = 5
    /\ timeline.milestonesExpected.ninetyPercent = 20

\* C25: when reachable is greater than 300, at every post frequency, the
\* conservative scenario stays below 95% of reachable in all 24 weeks, so
\* calculateTimeline returns exactly 24 weeks.
C25_LargeAudienceRunsFullLength ==
    phase = "timeline" =>
        \A r \in {Reachable} :
            r > 300 =>
                /\ timeline.totalWeeks = maxWeeks
                /\ Len(timeline.weeks) = maxWeeks
                /\ \A i \in 1..maxWeeks : 100 * timeline.weeks[i].conservative < 95 * r

\* a daily poster's timeline: the conservative scenario ends above 90% of a
\* reachable audience of more than 300, the loop having run all 24 weeks
C25_Witness ==
    /\ phase = "timeline"
    /\ migrationInputs.postFrequency = "daily"
    /\ Reachable > 300
    /\ timeline.totalWeeks = maxWeeks
    /\ 100 * timeline.weeks[maxWeeks].conservative >= 90 * Reachable

(***************************************************************************)
(* The advice for a channel, as MigrationCalculator.tsx derives it:         *)
(* getMode, then getStrategy when the mode is 'full'; for every small      *)
(* subscriber count, the mode boundary and large channels, at overlaps on  *)
(* both sides of each band of the recommendation.  getStrategy begins by   *)
(* calling calculateTimeline, which runs as in the migration               *)
(* specification, and builds its result from the timeline returned.        *)
(***************************************************************************)
AdviceSubscribers == (0..MaxSmallSubscribers) \cup {49, 50, 1000, 100000, 10000000}

AdviceOverlaps == {29, 30, 45, 69, 70, 100}

AdviceInputSet == [tgSubscribers : AdviceSubscribers, overlapPercent : AdviceOverlaps,
                   postFrequency : PostFrequencies]

InitAdvice ==
    /\ phase = "advising"
    /\ migrationInputs \in AdviceInputSet
    /\ w = 0
    /\ cumulative = NoCounts
    /\ weeks = <<>>
    /\ timeline = NoResult
    /\ mode = NoResult
    /\ strategy = NoResult
    /\ risks = NoResult
    /\ GrowthIdle
    /\ ComparisonIdle
    /\ CopyIdle

\* getMode is called and returns
DetectMode ==
    /\ phase = "advising"
    /\ mode' = getMode(migrationInputs.tgSubscribers)
    /\ phase' = "mode"
    /\ UNCHANGED <<migrationInputs, w, cumulative, weeks, timeline, strategy, risks, growthVars,
                   comparisonVars, copyVars>>

\* getStrategy is called, for a channel in mode 'full', and calls
\* calculateTimeline
CallStrategy ==
    /\ phase = "mode"
    /\ mode = "full"
    /\ phase' = "simulating"
    /\ UNCHANGED <<migrationVars, growthVars, comparisonVars, copyVars>>

\* getStrategy, calculateTimeline having returned, builds its result
GetStrategy ==
    /\ phase = "timeline"
    /\ mode = "full"
    /\ strategy' = StrategyResult(migrationInputs, timeline)
    /\ phase' = "strategy"
    /\ UNCHANGED <<migrationInputs, w, cumulative, weeks, timeline, mode, risks, growthVars,
                   comparisonVars, copyVars>>

\* the risks memo of MigrationCalculator calls getRisks, for a channel in
\* mode 'full', with the expected count of the timeline's last week
GetRisks ==
    /\ phase = "strategy"
    /\ mode = "full"
    /\ risks' = getRisks(migrationInputs, ProjectedMonth6(timeline))
    /\ phase' = "risks"
    /\ UNCHANGED <<migrationInputs, w, cumulative, weeks, timeline, mode, strategy, growthVars,
                   comparisonVars, copyVars>>

NextAdvice ==
    DetectMode \/ CallStrategy \/ SimulateWeek \/ TimelineReturn \/ GetStrategy \/ GetRisks

SpecAdvice == InitAdvice /\ [][NextAdvice]_vars

\* C12: getMode puts every non-negative subscriber count in exactly one mode:
\* 0 in startFresh, 1..49 in migrateManually, 50 and more in full.
C12_ModePartition ==
    phase # "advising" =>
        /\ mode \in {"startFresh", "migrateManually", "full"}
        /\ mode = "startFresh" <=> migrationInputs.tgSubscribers = 0
        /\ mode = "migrateManually" <=> migrationInputs.tgSubscribers \in 1..49
        /\ mode = "full" <=> migrationInputs.tgSubscribers >= 50

\* the mode returned for the last manual count
C12_Witness ==
    /\ phase = "mode"
    /\ migrationInputs.tgSubscribers = 49
    /\ mode = "migrateManually"

\* C13: getStrategy recommends gradual exactly when overlapPercent >= 70 and
\* parallel otherwise, never fullSwitch, and always returns the three cards
\* gradual, parallel, fullSwitch.
C13_RecommendationByOverlap ==
    phase = "strategy" =>
        /\ strategy.recommended = "gradual" <=> migrationInputs.overlapPercent >= 70
        /\ strategy.recommended = "parallel" <=> migrationInputs.overlapPercent < 70
        /\ strategy.recommended # "fullSwitch"
        /\ Len(strategy.cards) = 3
        /\ strategy.cards[1].type = "gradual"
        /\ strategy.cards[2].type = "parallel"
        /\ strategy.cards[3].type = "fullSwitch"

\* a strategy returned at the lowest overlap of the gradual band
C13_Witness ==
    /\ phase = "strategy"
    /\ migrationInputs.overlapPercent = 70
    /\ strategy.recommended = "gradual"

\* the first week of `wks` at or above 90% of reachable, or their number
GradualWeeks(wks, reachable) ==
    LET reached == WeeksAtOrAbove(wks, 9, reachable)
    IN IF reached # {} THEN FirstOf(reached) ELSE Len(wks)

\* C14: the gradual card's timelineWeeks is the first week in which the
\* expected scenario reaches 90% of reachable, or the number of simulated
\* weeks if it never does; the parallel card's is round(gradualWeeks x 1.8);
\* the fullSwitch card's is min(4, gradualWeeks).
C14_CardWeeks ==
    phase = "strategy" =>
        \A g \in {GradualWeeks(weeks, Reachable)} :
            /\ strategy.cards[1].timelineWeeks = g
            /\ strategy.cards[2].timelineWeeks = (18 * g + 5) \div 10
            /\ strategy.cards[3].timelineWeeks = IF g < 4 THEN g ELSE 4

\* a strategy for a large timeline whose expected scenario never reaches 90%,
\* so that the gradual card falls back on the 24 simulated weeks
C14_Witness ==
    /\ phase = "strategy"
    /\ migrationInputs.tgSubscribers = 1000
    /\ migrationInputs.postFrequency = "weekly"
    /\ strategy.cards[1].timelineWeeks = 24
    /\ strategy.cards[2].timelineWeeks = 43
    /\ strategy.cards[3].timelineWeeks = 4

(***************************************************************************)
(* components/tools/CopyButton.tsx, rendered with a non-empty text (the    *)
(* button is enabled).  handleCopy awaits the clipboard write; when the    *)
(* write settles, resolved or rejected (the catch branch copies through a  *)
(* textarea), it sets copied and a 2000 ms timer that clears copied.       *)
(* Writes settle in any order; timers of equal delay fire in the order     *)
(* they were set.  No timer is ever cleared.                               *)
(***************************************************************************)
MaxClicks == 4

InitCopy ==
    /\ phase = "copy"
    /\ CopyIdle
    /\ GrowthIdle
    /\ MigrationIdle
    /\ ComparisonIdle

\* onClick: handleCopy runs up to its await
Click ==
    /\ clicks < MaxClicks
    /\ clicks' = clicks + 1
    /\ clipboardWrites' = clipboardWrites \cup {clicks + 1}
    /\ UNCHANGED <<phase, copied, timers, growthVars, migrationVars, comparisonVars>>

\* the clipboard write of a click settles: setCopied(true); setTimeout(..., 2000)
WriteSettles ==
    /\ \E c \in clipboardWrites :
           /\ clipboardWrites' = clipboardWrites \ {c}
           /\ timers' = Append(timers, c)
    /\ copied' = TRUE
    /\ UNCHANGED <<phase, clicks, growthVars, migrationVars, comparisonVars>>

\* the oldest pending timer fires: setCopied(false)
TimerFires ==
    /\ timers # <<>>
    /\ timers' = Tail(timers)
    /\ copied' = FALSE
    /\ UNCHANGED <<phase, clicks, clipboardWrites, growthVars, migrationVars, comparisonVars>>

NextCopy == Click \/ WriteSettles \/ TimerFires

SpecCopy == InitCopy /\ [][NextCopy]_vars

\* the revert timer of the most recent click is pending
LastClickTimerPending == \E i \in DOMAIN timers : timers[i] = clicks

\* C17: while the revert timer of the most recent click is pending the
\* button shows 'Copied!', and once every click's write has settled and every
\* timer has fired it shows its label again.
C17_CopiedUntilOwnTimerFires ==
    /\ LastClickTimerPending => copied
    /\ (clicks > 0 /\ clipboardWrites = {} /\ timers = <<>>) => ~copied

(***************************************************************************)
(* The comparison tool, mounted over any feature table of MaxFeatures      *)
(* rows.                                                                   *)
(***************************************************************************)
MaxFeatures == 2

FeatureTables ==
    {t \in [1..MaxFeatures -> [id : 1..MaxFeatures, winner : Winners, creatorRelevant : BOOLEAN,
                               businessRelevant : BOOLEAN, personalRelevant : BOOLEAN]] :
        \A i \in 1..MaxFeatures : t[i].id = i}

filteredFeatures == FilteredFeatures(features, useCase)

scoreCounts == ScoreCounts(filteredFeatures)

InitComparison ==
    /\ phase = "comparison"
    /\ features \in FeatureTables
    /\ useCase = "creator"
    /\ expandedRows = {}
    /\ ScoreIdle
    /\ GrowthIdle
    /\ MigrationIdle
    /\ CopyIdle

\* the change of tab without setExpandedRows(new Set())
HandleUseCaseChangeKeepingRows(newCase) ==
    /\ useCase' = newCase
    /\ UNCHANGED expandedRows

\* handleUseCaseChange(newCase): a tab is clicked
HandleUseCaseChange(newCase) ==
    /\ useCase' = newCase
    /\ expandedRows' = {}

ClickTab ==
    /\ phase = "comparison"
    /\ \E newCase \in UseCases : HandleUseCaseChange(newCase)
    /\ UNCHANGED <<phase, features, scoreVars, growthVars, migrationVars, copyVars>>

\* toggleRow(id): a rendered row is clicked
ToggleRow ==
    /\ phase = "comparison"
    /\ \E i \in 1..Len(filteredFeatures) :
          LET id == filteredFeatures[i].id
          IN expandedRows' = IF id \in expandedRows THEN expandedRows \ {id}
                             ELSE expandedRows \cup {id}
    /\ UNCHANGED <<phase, features, useCase, scoreVars, growthVars, migrationVars, copyVars>>

UseCaseIndex(uc) == CHOOSE i \in 1..Len(UseCaseOrder) : UseCaseOrder[i] = uc

\* handleTabKeyDown(e): a key is pressed on the tab list
TabKeyDown ==
    /\ phase = "comparison"
    /\ \E key \in {"ArrowRight", "ArrowDown", "ArrowLeft", "ArrowUp", "Enter"} :
          LET currentIndex == UseCaseIndex(useCase) - 1
              n == Len(UseCaseOrder)
              newIndex == IF key \in {"ArrowRight", "ArrowDown"} THEN (currentIndex + 1) % n
                          ELSE IF key \in {"ArrowLeft", "ArrowUp"} THEN (currentIndex - 1 + n) % n
                          ELSE currentIndex
          IN IF newIndex # currentIndex
             THEN HandleUseCaseChange(UseCaseOrder[newIndex + 1])
             ELSE UNCHANGED <<useCase, expandedRows>>
    /\ UNCHANGED <<phase, features, scoreVars, growthVars, migrationVars, copyVars>>

NextComparison == ClickTab \/ ToggleRow \/ TabKeyDown

SpecComparison == InitComparison /\ [][NextComparison]_vars

\* the number of filtered features whose winner is one of `winners`
FilteredWith(winners) ==
    Cardinality({i \in 1..Len(filteredFeatures) : filteredFeatures[i].winner \in winners})

\* C7 (as amended): a filtered feature whose winner is "depends" is counted in
\* the ties bucket: waWins is the number of filtered features won by whatsapp,
\* tgWins the number won by telegram, and ties the number whose winner is tie
\* or depends.
C7_DependsCountedAsTie ==
    /\ scoreCounts.waWins = FilteredWith({"whatsapp"})
    /\ scoreCounts.tgWins = FilteredWith({"telegram"})
    /\ scoreCounts.ties = FilteredWith({"tie", "depends"})

\* C7 as the specification states it: "depends" rows are in no bucket, so the
\* three buckets add up to the filtered features won by whatsapp, telegram or tie
C7_DependsInNoBucket ==
    scoreCounts.waWins + scoreCounts.tgWins + scoreCounts.ties
        = FilteredWith({"whatsapp", "telegram", "tie"})

\* after a change of tab, the filtered rows hold a "depends" row next to a row
\* with a winner
C7_Witness ==
    /\ useCase # "creator"
    /\ FilteredWith({"depends"}) >= 1
    /\ FilteredWith({"whatsapp", "telegram"}) >= 1
    /\ scoreCounts.ties >= 1

\* the features of the table whose relevance flag for the use case is true
RelevantTo(uc) == {i \in 1..Len(features) : features[i][RELEVANCE_MAP[uc]] = TRUE}

\* C21: for each use case, waWins + tgWins + ties equals the number of
\* features whose relevance flag for the selected use case is true.
C21_CountsMatchFiltered ==
    scoreCounts.waWins + scoreCounts.tgWins + scoreCounts.ties = Cardinality(RelevantTo(useCase))

\* the personal tab of a table with one feature relevant to it and one not
C21_Witness ==
    /\ useCase = "personal"
    /\ Cardinality(RelevantTo("personal")) = 1
    /\ Cardinality(RelevantTo("creator")) = 2
    /\ scoreCounts.waWins + scoreCounts.tgWins + scoreCounts.ties = 1

\* C22: every step that selects another use case leaves the set of expanded
\* rows empty, and every expanded row id always belongs to a feature relevant
\* to the selected use case.
C22_ExpandedRowsRelevant ==
    /\ [](expandedRows \subseteq RelevantTo(useCase))
    /\ [][useCase' # useCase => expandedRows' = {}]_vars

\* a row expanded after the tab was changed, in a table with a feature shown
\* under the first tab only
C22_Witness ==
    /\ useCase = "business"
    /\ expandedRows # {}
    /\ RelevantTo("creator") \ RelevantTo("business") # {}

\* C29: the milestones of a returned timeline are ordered: when
\* ninetyPercent is not null, fiftyPercent is not null and is at most
\* ninetyPercent; each mark that is not null is a week in 1..totalWeeks
\* (null is 0 here).
C29_MilestonesOrdered ==
    phase = "timeline" =>
        \A ms \in {timeline.milestonesExpected} :
            /\ ms.ninetyPercent # 0 => (ms.fiftyPercent # 0 /\ ms.fiftyPercent <= ms.ninetyPercent)
            /\ ms.fiftyPercent \in 0..timeline.totalWeeks
            /\ ms.ninetyPercent \in 0..timeline.totalWeeks

\* a returned timeline whose expected scenario passed the half mark weeks
\* before the 90% mark, and that one before the last week
C29_Witness ==
    /\ phase = "timeline"
    /\ timeline.milestonesExpected.fiftyPercent >= 2
    /\ timeline.milestonesExpected.fiftyPercent < timeline.milestonesExpected.ninetyPercent
    /\ timeline.milestonesExpected.ninetyPercent < timeline.totalWeeks

\* C30: in every simulated week conservative <= expected <= optimistic, and
\* no scenario's cumulative count is below its count of the week before.
C30_ScenariosOrderedAndGrowing ==
    /\ \A i \in 1..Len(weeks) :
          /\ weeks[i].conservative <= weeks[i].expected
          /\ weeks[i].expected <= weeks[i].optimistic
    /\ \A i \in 2..Len(weeks) :
          /\ weeks[i - 1].conservative <= weeks[i].conservative
          /\ weeks[i - 1].expected <= weeks[i].expected
          /\ weeks[i - 1].optimistic <= weeks[i].optimistic

\* a second week in which every scenario gained and the three counts are
\* strictly apart
C30_Witness ==
    /\ phase = "simulating"
    /\ Len(weeks) = 2
    /\ weeks[1].conservative < weeks[2].conservative
    /\ weeks[1].expected < weeks[2].expected
    /\ weeks[1].optimistic < weeks[2].optimistic
    /\ weeks[2].conservative < weeks[2].expected
    /\ weeks[2].expected < weeks[2].optimistic

(***************************************************************************)
(* ScoreSummary rendered for a tally.                                      *)
(***************************************************************************)
MaxTally == 8

TallySet == [waWins : 0..MaxTally, tgWins : 0..MaxTally, ties : 0..MaxTally]

InitScore ==
    /\ phase = "score"
    /\ features = <<>>
    /\ useCase = "creator"
    /\ expandedRows = {}
    /\ tally \in TallySet
    /\ scoreBar = NoResult
    /\ GrowthIdle
    /\ MigrationIdle
    /\ CopyIdle

\* ScoreSummary is rendered with the tally as its props
RenderScore ==
    /\ phase = "score"
    /\ scoreBar' = ScoreSummary(tally.waWins, tally.tgWins, tally.ties)
    /\ phase' = "scored"
    /\ UNCHANGED <<features, useCase, expandedRows, tally, growthVars, migrationVars, copyVars>>

NextScore == RenderScore

SpecScore == InitScore /\ [][NextScore]_vars

RECURSIVE SumWidths(_)
SumWidths(segments) ==
    IF segments = <<>> THEN 0 ELSE Head(segments).width + SumWidths(Tail(segments))

\* C28: for a tally with total > 0 the three percentages of ScoreSummary are
\* each between 0 and 100, and the widths of the rendered segments add up to
\* exactly 100.
C28_SegmentsFillBar ==
    (phase = "scored" /\ tally.waWins + tally.tgWins + tally.ties > 0) =>
        /\ scoreBar.waPct \in 0..100
        /\ scoreBar.tgPct \in 0..100
        /\ scoreBar.tiePct \in 0..100
        /\ SumWidths(scoreBar.segments) = 100

ScenarioNames == {Scenarios[i] : i \in 1..Len(Scenarios)}

\* C27: a scenario whose count after month 1 is still the starting count
\* keeps the starting count in every later month, and the count a month
\* pushes for a scenario is a function of that scenario's own count before
\* the month: the same count going in gives the same count coming out.
C27_StalledScenarioStaysFlat ==
    /\ [](\A sc \in ScenarioNames :
            (phase = "projecting" /\ month >= 1 /\ monthly[1][sc] = SeedFollowers(inputs)) =>
                monthly[month][sc] = SeedFollowers(inputs))
    /\ [][(phase = "projecting" /\ month' = month + 1) =>
            \A sc \in ScenarioNames : \A i \in 1..month :
                CountsBefore(i)[sc] = monthly[month][sc] => monthly'[month'][sc] = monthly[i][sc]]_vars

\* month 12 of a projection whose conservative scenario never left the
\* starting count while the optimistic one grew
C27_Witness ==
    /\ phase = "projecting"
    /\ month = ProjectionMonths
    /\ monthly[1].conservative = SeedFollowers(inputs)
    /\ monthly[ProjectionMonths].conservative = SeedFollowers(inputs)
    /\ monthly[ProjectionMonths].optimistic > SeedFollowers(inputs)

\* C26: the followers getRisks and the full-switch card count as not on
\* WhatsApp, added to the reachable audience, give the Telegram subscribers
\* again: the two rounded counts partition the audience.
C26_AudiencePartitioned ==
    phase = "risks" =>
        /\ Reachable + risks.rushing[3].figures[1] = migrationInputs.tgSubscribers
        /\ Reachable + strategy.cards[3].loses = migrationInputs.tgSubscribers
====
